---- MODULE Spec2Model ----
(***************************************************************************)
(* The completions endpoint of pages/api/openai/completions/[project].ts:  *)
(* one request, from intake to the end of the output stream.  The handler  *)
(* is an async function; every action below is the code that runs between *)
(* two of its awaits (or one onParse callback of the stream transformer).  *)
(***************************************************************************)
EXTENDS Integers, Sequences, FiniteSets, TLC

(* ------------------------------ bounds -------------------------------- *)

\* Longest retrieval result the budgeter is checked on (BudgetSpec).
MaxSections == 3

\* Most upstream events fed to the stream transformer in StreamSpec.
MaxEvents == 3

\* Most upstream events fed to the stream transformer in Spec.
MaxPipelineEvents == 1

(* ------------------------- program constants -------------------------- *)

CONTEXT_TOKENS_CUTOFF == 800

\* numOfAttempts of the backOff call around createEmbedding.
NumOfAttempts == 10

\* The maximum prompt length of lib/constants, scaled down.
MAX_PROMPT_LENGTH == 2

\* The line appended after every included section: `\n---\n`.
SectionSeparator == "\n---\n"

(* ----------------------------- input sets ----------------------------- *)

Paths == {"p0", "p1"}

\* Section contents, as sequences of characters.
Contents == {<<"a">>, <<" ", "b", "\n">>}

TokenCounts == {100, 400, 500, 800}

Section(p, c, t) == [path |-> p, content |-> c, token_count |-> t]

Sections == {Section(p, c, t) : p \in Paths, c \in Contents, t \in TokenCounts}

RECURSIVE SeqsUpTo(_, _)
SeqsUpTo(S, n) ==
    IF n = 0 THEN {<<>>}
    ELSE LET shorter == SeqsUpTo(S, n - 1)
         IN  shorter \cup {Append(q, x) : q \in {r \in shorter : Len(r) = n - 1}, x \in S}

\* Retrieval results tried in the whole-handler specification.
PipelineSectionLists ==
    { <<>>,
      <<Section("p0", <<"a">>, 100)>>,
      <<Section("p0", <<"a">>, 800)>>,
      <<Section("p0", <<" ", "b", "\n">>, 500), Section("p1", <<"a">>, 400)>> }

\* Chunk texts of the upstream completion stream, as sequences of characters.
ChunkTexts ==
    { <<>>, <<"\n">>, <<"\n", "\n">>, <<"H">>, <<" ", "w">>, <<"H", "\n">> }

\* What the eventsource parser hands to onParse: a reconnect interval, or an
\* event whose data is the [DONE] sentinel, a JSON payload carrying a chunk
\* text, or a payload that JSON.parse / getChunkText throws on.
Events ==
    { [type |-> "reconnect-interval", data |-> "", text |-> <<>>],
      [type |-> "event", data |-> "[DONE]", text |-> <<>>],
      [type |-> "event", data |-> "malformed", text |-> <<>>] }
    \cup { [type |-> "event", data |-> "json", text |-> t] : t \in ChunkTexts }

RateLimitResults ==
    { [success |-> TRUE, limit |-> 5, remaining |-> 4],
      [success |-> FALSE, limit |-> 5, remaining |-> 0] }

\* Replies of the moderation endpoint: a verdict, or an error body without
\* results.
ModerationResponses ==
    { [results |-> <<[flagged |-> TRUE]>>],
      [results |-> <<[flagged |-> FALSE]>>],
      [results |-> <<>>] }

\* params.prompt as sent, as sequences of characters.
RawPrompts == {<<>>, <<"q">>, <<"q", "r", "s">>}

\* Request bodies: not JSON, JSON without a prompt, JSON with a prompt.
Bodies ==
    { [json |-> FALSE, hasPrompt |-> FALSE, prompt |-> <<>>],
      [json |-> TRUE, hasPrompt |-> FALSE, prompt |-> <<>>] }
    \cup { [json |-> TRUE, hasPrompt |-> TRUE, prompt |-> p] : p \in RawPrompts }

Requests ==
    [ method : {"OPTIONS", "GET", "POST"},
      lastPathComponent : {"completions", "proj1", ""},
      searchProject : {"", "proj1"},
      body : Bodies ]

VARIABLES
    req,                \* the incoming request
    pc,                 \* where the handler is
    calls,              \* how many calls were issued to each collaborator
    rateLimitResult,    \* <<>> or <<result of checkCompletionsRateLimits>>
    moderationResponse, \* <<>> or <<reply of createModeration>>
    embeddingResult,    \* "pending", or how the backOff call settled
    response,           \* <<>> or <<the Response the handler returned>>
    fileSections,       \* data of match_file_sections
    numTokens,
    contextText,
    references,
    streamState,        \* "none", "readable", "closed", "errored"
    frames,             \* chunks enqueued on the output stream, in order
    didSendHeader,
    counter,
    received,           \* events handed to onParse so far
    startOutcome,       \* how start() of the output stream ended, if it did
    queue,              \* chunks enqueued and not yet read by the consumer
    delivered,          \* chunks the consumer has read, in order
    readPending,        \* the consumer waits in read() on an empty queue
    cancelled           \* the consumer has cancelled the stream

vars == << req, pc, calls, rateLimitResult, moderationResponse,
           embeddingResult, response, fileSections, numTokens, contextText,
           references, streamState, frames, didSendHeader, counter, received,
           startOutcome, queue, delivered, readPending, cancelled >>

budgetVars == << fileSections, numTokens, contextText, references >>

consumerVars == << queue, delivered, readPending, cancelled >>

streamVars == << streamState, frames, didSendHeader, counter, received,
                 startOutcome, consumerVars >>

NoCalls ==
    [rateLimit |-> 0, moderation |-> 0, embedding |-> 0, retrieval |-> 0,
     completion |-> 0]

Respond(status, body) == <<[status |-> status, body |-> body, headers |-> {}]>>

Init ==
    /\ req \in Requests
    /\ pc = "intake"
    /\ calls = NoCalls
    /\ rateLimitResult = <<>>
    /\ moderationResponse = <<>>
    /\ embeddingResult = "pending"
    /\ response = <<>>
    /\ fileSections = <<>>
    /\ numTokens = 0
    /\ contextText = <<>>
    /\ references = <<>>
    /\ streamState = "none"
    /\ frames = <<>>
    /\ didSendHeader = FALSE
    /\ counter = 0
    /\ received = <<>>
    /\ startOutcome = "notStarted"
    /\ queue = <<>>
    /\ delivered = <<>>
    /\ readPending = FALSE
    /\ cancelled = FALSE

(* ------------------------ intake and validation ----------------------- *)

\* projectIdParam: the query parameter when the last path component is
\* `completions`, otherwise the last path component itself.
ProjectIdParam(r) ==
    IF r.lastPathComponent = "completions" THEN r.searchProject
    ELSE r.lastPathComponent

\* (params.prompt as string).substring(0, MAX_PROMPT_LENGTH)
TruncatedPrompt(r) ==
    SubSeq(r.body.prompt, 1,
           IF Len(r.body.prompt) < MAX_PROMPT_LENGTH
           THEN Len(r.body.prompt) ELSE MAX_PROMPT_LENGTH)

\* From the entry of the handler to the await of checkCompletionsRateLimits.
\* req.json() rejects on a body that is not JSON and substring throws on a
\* missing prompt: nothing catches either.
Intake ==
    /\ pc = "intake"
    /\ IF req.method = "OPTIONS"
       THEN /\ response' = Respond(200, "ok")
            /\ pc' = "responded"
            /\ calls' = calls
       ELSE IF req.method # "POST"
       THEN /\ response' = Respond(405, "Method Not Allowed")
            /\ pc' = "responded"
            /\ calls' = calls
       ELSE IF ~req.body.json \/ ~req.body.hasPrompt
       THEN /\ response' = response
            /\ pc' = "thrown"
            /\ calls' = calls
       ELSE IF ProjectIdParam(req) = ""
       THEN /\ response' = Respond(400, "No project found")
            /\ pc' = "responded"
            /\ calls' = calls
       ELSE IF TruncatedPrompt(req) = <<>>
       THEN /\ response' = Respond(400, "No prompt provided")
            /\ pc' = "responded"
            /\ calls' = calls
       ELSE /\ response' = response
            /\ pc' = "rateLimit"
            /\ calls' = [calls EXCEPT !.rateLimit = @ + 1]
    /\ UNCHANGED << req, rateLimitResult, moderationResponse, embeddingResult >>
    /\ UNCHANGED budgetVars
    /\ UNCHANGED streamVars

(* ----------------------------- rate limit ----------------------------- *)

\* The test inverted.
RateLimitedMutant(result) == result.success

\* if (!rateLimitResult.result.success)
RateLimited(result) == ~result.success

\* checkCompletionsRateLimits resolves; on success the handler goes on to the
\* moderation call.
RateLimitReturns ==
    /\ pc = "rateLimit"
    /\ \E result \in RateLimitResults :
        /\ rateLimitResult' = <<result>>
        /\ IF RateLimited(result)
           THEN /\ response' = Respond(429, "Too many requests")
                /\ pc' = "responded"
                /\ calls' = calls
           ELSE /\ response' = response
                /\ pc' = "moderation"
                /\ calls' = [calls EXCEPT !.moderation = @ + 1]
    /\ UNCHANGED << req, moderationResponse, embeddingResult >>
    /\ UNCHANGED budgetVars
    /\ UNCHANGED streamVars

(* ----------------------------- moderation ----------------------------- *)

\* The verdict never read.
FlaggedMutant(r) == FALSE

\* moderationResponse?.results?.[0]?.flagged
Flagged(r) == Len(r.results) > 0 /\ r.results[1].flagged

\* createModeration resolves; flagged content is thrown, anything else goes
\* on to the first embedding attempt.
ModerationReturns ==
    /\ pc = "moderation"
    /\ \E r \in ModerationResponses :
        /\ moderationResponse' = <<r>>
        /\ IF Flagged(r)
           THEN /\ pc' = "thrown"
                /\ calls' = calls
           ELSE /\ pc' = "embedding"
                /\ calls' = [calls EXCEPT !.embedding = @ + 1]
    /\ UNCHANGED << req, rateLimitResult, embeddingResult, response >>
    /\ UNCHANGED budgetVars
    /\ UNCHANGED streamVars

\* createModeration rejects (the fetch or its JSON decoding fails): nothing
\* catches it.
ModerationThrows ==
    /\ pc = "moderation"
    /\ pc' = "thrown"
    /\ UNCHANGED << req, calls, rateLimitResult, moderationResponse,
                    embeddingResult, response >>
    /\ UNCHANGED budgetVars
    /\ UNCHANGED streamVars

(* ------------------------ embedding with backOff ---------------------- *)

\* One attempt too many.
MayRetryMutant(attempts) == attempts <= NumOfAttempts

\* backOff retries a rejected attempt while fewer than numOfAttempts were made.
MayRetry(attempts) == attempts < NumOfAttempts

\* One attempt of createEmbedding settles: it rejects, or resolves with an
\* error body that carries no vector, or resolves with a vector.
EmbeddingAttemptReturns ==
    /\ pc = "embedding"
    /\ \E outcome \in {"rejected", "noVector", "vector"} :
        CASE outcome = "rejected" /\ MayRetry(calls.embedding) ->
                /\ calls' = [calls EXCEPT !.embedding = @ + 1]
                /\ embeddingResult' = "pending"
                /\ pc' = "embedding"
                /\ response' = response
          [] outcome = "rejected" /\ ~MayRetry(calls.embedding) ->
                /\ calls' = calls
                /\ embeddingResult' = "rejected"
                /\ pc' = "responded"
                /\ response' = Respond(400, "Error creating embedding: error")
          [] outcome = "noVector" ->
                /\ calls' = calls
                /\ embeddingResult' = "noVector"
                /\ pc' = "responded"
                /\ response' = Respond(400, "Error creating embedding")
          [] outcome = "vector" ->
                /\ calls' = [calls EXCEPT !.retrieval = @ + 1]
                /\ embeddingResult' = "vector"
                /\ pc' = "retrieval"
                /\ response' = response
    /\ UNCHANGED << req, rateLimitResult, moderationResponse >>
    /\ UNCHANGED budgetVars
    /\ UNCHANGED streamVars

(* ------------------------- context budgeting -------------------------- *)

IsSpace(ch) == ch \in {" ", "\n", "\t"}

\* String.prototype.trim on a sequence of characters.
RECURSIVE TrimStart(_)
TrimStart(text) ==
    IF text # <<>> /\ IsSpace(Head(text)) THEN TrimStart(Tail(text)) ELSE text

RECURSIVE TrimEnd(_)
TrimEnd(text) ==
    IF text # <<>> /\ IsSpace(text[Len(text)])
    THEN TrimEnd(SubSeq(text, 1, Len(text) - 1))
    ELSE text

Trim(text) == TrimEnd(TrimStart(text))

\* The cutoff itself still admitted.
CutoffReachedMutant(n) == n > CONTEXT_TOKENS_CUTOFF

\* if (numTokens >= CONTEXT_TOKENS_CUTOFF) break;
CutoffReached(n) == n >= CONTEXT_TOKENS_CUTOFF

\* The path pushed without the includes test.
AddReferenceMutant(refs, path) == Append(refs, path)

\* if (!references.includes(section.path)) references.push(section.path);
AddReference(refs, path) ==
    IF \E i \in 1..Len(refs) : refs[i] = path THEN refs ELSE Append(refs, path)

\* The loop with the reference pushed before the cutoff test.
RECURSIVE BudgetLoopMutant(_, _, _)
BudgetLoopMutant(sections, i, acc) ==
    IF i > Len(sections) THEN acc
    ELSE LET section == sections[i]
             n == acc.numTokens + section.token_count
             refs == AddReference(acc.references, section.path)
         IN  IF CutoffReached(n)
             THEN [acc EXCEPT !.numTokens = n, !.references = refs]
             ELSE BudgetLoopMutant(sections, i + 1,
                    [numTokens |-> n,
                     contextText |-> acc.contextText \o Trim(section.content)
                                        \o <<SectionSeparator>>,
                     references |-> refs])

\* The loop over fileSections from its i-th section on; acc holds numTokens,
\* contextText and references.
RECURSIVE BudgetLoop(_, _, _)
BudgetLoop(sections, i, acc) ==
    IF i > Len(sections) THEN acc
    ELSE LET section == sections[i]
             n == acc.numTokens + section.token_count
         IN  IF CutoffReached(n)
             THEN [acc EXCEPT !.numTokens = n]
             ELSE BudgetLoop(sections, i + 1,
                    [numTokens |-> n,
                     contextText |-> acc.contextText \o Trim(section.content)
                                        \o <<SectionSeparator>>,
                     references |-> AddReference(acc.references, section.path)])

Budget(sections) ==
    BudgetLoop(sections, 1,
               [numTokens |-> 0, contextText |-> <<>>, references |-> <<>>])

(* ------------------- retrieval and completion request ----------------- *)

\* match_file_sections resolves with result; the handler answers 400 on an
\* error or on no section, otherwise budgets the sections, builds the prompt
\* and issues the completion fetch.
RetrievalReturns(result) ==
    /\ pc = "retrieval"
    /\ IF result.error
       THEN /\ response' = Respond(400, "Error loading embeddings")
            /\ pc' = "responded"
            /\ calls' = calls
            /\ UNCHANGED budgetVars
       ELSE IF result.data = <<>>
       THEN /\ response' = Respond(400, "No relevant sections found")
            /\ pc' = "responded"
            /\ calls' = calls
            /\ UNCHANGED budgetVars
       ELSE LET b == Budget(result.data)
            IN  /\ fileSections' = result.data
                /\ numTokens' = b.numTokens
                /\ contextText' = b.contextText
                /\ references' = b.references
                /\ response' = response
                /\ pc' = "fetch"
                /\ calls' = [calls EXCEPT !.completion = @ + 1]
    /\ UNCHANGED << req, rateLimitResult, moderationResponse, embeddingResult >>
    /\ UNCHANGED streamVars

\* The rpc's result: an error, or data (null and the empty list are both the
\* empty sequence here: `!fileSections || fileSections.length === 0`).
PipelineRetrieval ==
    /\ pc = "retrieval"
    /\ \E result \in {[error |-> TRUE, data |-> <<>>]}
                    \cup {[error |-> FALSE, data |-> d] : d \in PipelineSectionLists} :
        RetrievalReturns(result)

\* The completion fetch resolves: the output stream is constructed, start()
\* runs up to its first read of the body, and the handler returns the stream.
FetchReturns ==
    /\ pc = "fetch"
    /\ streamState' = "readable"
    /\ startOutcome' = "running"
    /\ response' = Respond(200, "stream")
    /\ pc' = "streaming"
    /\ UNCHANGED << req, calls, rateLimitResult, moderationResponse,
                    embeddingResult >>
    /\ UNCHANGED budgetVars
    /\ UNCHANGED << frames, didSendHeader, counter, received >>
    /\ UNCHANGED consumerVars

\* The completion fetch rejects: nothing catches it.
FetchThrows ==
    /\ pc = "fetch"
    /\ pc' = "thrown"
    /\ UNCHANGED << req, calls, rateLimitResult, moderationResponse,
                    embeddingResult, response >>
    /\ UNCHANGED budgetVars
    /\ UNCHANGED streamVars

(* -------------------------- stream transformer ------------------------ *)

ReferencesFrame(refs) == [kind |-> "references", refs |-> refs, text |-> <<>>]

ContentFrame(text) == [kind |-> "content", refs |-> <<>>, text |-> text]

HasNewline(text) == \E i \in 1..Len(text) : text[i] = "\n"

\* The first three chunks filtered.
IsPrefixArtifactMutant(n, text) == n <= 2 /\ HasNewline(text)

\* counter < 2 && (text?.match(/\n/) || []).length
IsPrefixArtifact(n, text) == n < 2 /\ HasNewline(text)

\* Only a closed stream refuses a chunk.
CanEnqueueMutant == streamState # "closed"

\* controller.enqueue throws unless the stream is readable.
CanEnqueue == streamState = "readable"

\* controller.error is a no-op unless the stream is readable.
ErrorStream == IF streamState = "readable" THEN "errored" ELSE streamState

\* The consumer's side after controller.enqueue of chunks on a readable
\* stream: a chunk goes to a waiting read(), otherwise into the queue.
Enqueued(chunks) ==
    IF chunks # <<>> /\ readPending
    THEN [queue |-> queue \o Tail(chunks),
          delivered |-> Append(delivered, Head(chunks)),
          readPending |-> FALSE]
    ELSE [queue |-> queue \o chunks, delivered |-> delivered,
          readPending |-> readPending]

\* The consumer's side after controller.error on a readable stream: the queue
\* is reset and a waiting read() is rejected.
Errored(c) == [c EXCEPT !.queue = <<>>, !.readPending = FALSE]

SetConsumer(c) ==
    /\ queue' = c.queue
    /\ delivered' = c.delivered
    /\ readPending' = c.readPending

\* One call of onParse.
OnParse(event) ==
    /\ pc = "streaming"
    /\ received' = Append(received, event)
    /\ IF event.type # "event" \/ event.data = "[DONE]"
       THEN UNCHANGED << streamState, frames, didSendHeader, counter, queue,
                         delivered, readPending >>
       ELSE IF ~CanEnqueue
       THEN \* an enqueue throws, or the catch finds nothing to error; an
            \* artifact chunk returns before it
            UNCHANGED << streamState, frames, didSendHeader, counter, queue,
                         delivered, readPending >>
       ELSE LET header ==
                    IF didSendHeader THEN <<>>
                    ELSE <<ReferencesFrame(references)>>
            IN  /\ didSendHeader' = TRUE
                /\ IF event.data = "malformed"
                   THEN \* JSON.parse or getChunkText throws: catch
                        /\ streamState' = "errored"
                        /\ frames' = frames \o header
                        /\ counter' = counter
                        /\ SetConsumer(Errored(Enqueued(header)))
                   ELSE IF IsPrefixArtifact(counter, event.text)
                   THEN /\ frames' = frames \o header
                        /\ SetConsumer(Enqueued(header))
                        /\ UNCHANGED << streamState, counter >>
                   ELSE /\ frames' = frames \o header
                                        \o <<ContentFrame(event.text)>>
                        /\ SetConsumer(
                             Enqueued(header \o <<ContentFrame(event.text)>>))
                        /\ counter' = counter + 1
                        /\ streamState' = streamState
    /\ UNCHANGED << req, pc, calls, rateLimitResult, moderationResponse,
                    embeddingResult, response, startOutcome, cancelled >>
    /\ UNCHANGED budgetVars

PipelineFeed ==
    \E event \in Events : Len(received) < MaxPipelineEvents /\ OnParse(event)

StreamFeed ==
    \E event \in Events : Len(received) < MaxEvents /\ OnParse(event)

\* The body is exhausted: the tokens of allText are counted, then the parser
\* is reset and the controller closed.  A throw of the tokenizer, or of
\* close() on a stream that is no longer readable, rejects start(), which
\* errors the stream if it still is readable.  A closed stream keeps its
\* queue until the consumer has read it.
BodyEnds ==
    /\ pc = "streaming"
    /\ \E tokenizerThrew \in BOOLEAN :
        IF tokenizerThrew
        THEN /\ startOutcome' = "tokenizerThrew"
             /\ streamState' = ErrorStream
             /\ IF streamState = "readable"
                THEN queue' = <<>> /\ readPending' = FALSE
                ELSE UNCHANGED << queue, readPending >>
        ELSE IF streamState = "readable"
        THEN /\ startOutcome' = "returned"
             /\ streamState' = "closed"
             /\ readPending' = FALSE
             /\ queue' = queue
        ELSE /\ startOutcome' = "closeThrew"
             /\ streamState' = streamState
             /\ UNCHANGED << queue, readPending >>
    /\ pc' = "ended"
    /\ UNCHANGED << req, calls, rateLimitResult, moderationResponse,
                    embeddingResult, response >>
    /\ UNCHANGED budgetVars
    /\ UNCHANGED << frames, didSendHeader, counter, received, delivered,
                    cancelled >>

\* Reading or decoding the body throws: start() rejects, which errors the
\* stream if it still is readable.
BodyFails ==
    /\ pc = "streaming"
    /\ startOutcome' = "readThrew"
    /\ streamState' = ErrorStream
    /\ IF streamState = "readable"
       THEN queue' = <<>> /\ readPending' = FALSE
       ELSE UNCHANGED << queue, readPending >>
    /\ pc' = "ended"
    /\ UNCHANGED << req, calls, rateLimitResult, moderationResponse,
                    embeddingResult, response >>
    /\ UNCHANGED budgetVars
    /\ UNCHANGED << frames, didSendHeader, counter, received, delivered,
                    cancelled >>

(* ------------------------ consumer of the stream ---------------------- *)

\* The client transport calls read() on the returned stream: it takes the
\* head of the queue, or waits when the queue is empty and the stream is
\* still readable.
ConsumerRead ==
    /\ pc \in {"streaming", "ended"}
    /\ ~readPending
    /\ IF queue # <<>>
       THEN /\ delivered' = Append(delivered, Head(queue))
            /\ queue' = Tail(queue)
            /\ readPending' = FALSE
       ELSE /\ streamState = "readable"
            /\ readPending' = TRUE
            /\ UNCHANGED << queue, delivered >>
    /\ UNCHANGED << req, pc, calls, rateLimitResult, moderationResponse,
                    embeddingResult, response >>
    /\ UNCHANGED budgetVars
    /\ UNCHANGED << streamState, frames, didSendHeader, counter, received,
                    startOutcome, cancelled >>

\* The client disconnects: the stream is cancelled, which closes it and
\* resets its queue.  The underlying source has no cancel callback, so
\* nothing else happens.
ConsumerCancel ==
    /\ pc \in {"streaming", "ended"}
    /\ ~cancelled
    /\ streamState = "readable" \/ (streamState = "closed" /\ queue # <<>>)
    /\ cancelled' = TRUE
    /\ streamState' = "closed"
    /\ queue' = <<>>
    /\ readPending' = FALSE
    /\ UNCHANGED << req, pc, calls, rateLimitResult, moderationResponse,
                    embeddingResult, response >>
    /\ UNCHANGED budgetVars
    /\ UNCHANGED << frames, didSendHeader, counter, received, startOutcome,
                    delivered >>

(* --------------------------- specifications --------------------------- *)

\* The whole handler, one request.
Next ==
    \/ Intake
    \/ RateLimitReturns
    \/ ModerationReturns
    \/ ModerationThrows
    \/ EmbeddingAttemptReturns
    \/ PipelineRetrieval
    \/ FetchReturns
    \/ FetchThrows
    \/ PipelineFeed
    \/ BodyEnds
    \/ BodyFails
    \/ ConsumerRead
    \/ ConsumerCancel

Spec == Init /\ [][Next]_vars

\* The handler awaiting match_file_sections, after an allowed, unflagged
\* request whose first embedding attempt gave a vector.
AwaitingRetrieval ==
    /\ req = [method |-> "POST", lastPathComponent |-> "proj1",
              searchProject |-> "",
              body |-> [json |-> TRUE, hasPrompt |-> TRUE, prompt |-> <<"q">>]]
    /\ pc = "retrieval"
    /\ calls = [rateLimit |-> 1, moderation |-> 1, embedding |-> 1,
                retrieval |-> 1, completion |-> 0]
    /\ rateLimitResult = <<[success |-> TRUE, limit |-> 5, remaining |-> 4]>>
    /\ moderationResponse = <<[results |-> <<[flagged |-> FALSE]>>]>>
    /\ embeddingResult = "vector"
    /\ response = <<>>
    /\ fileSections = <<>>
    /\ numTokens = 0
    /\ contextText = <<>>
    /\ references = <<>>
    /\ streamState = "none"
    /\ frames = <<>>
    /\ didSendHeader = FALSE
    /\ counter = 0
    /\ received = <<>>
    /\ startOutcome = "notStarted"
    /\ queue = <<>>
    /\ delivered = <<>>
    /\ readPending = FALSE
    /\ cancelled = FALSE

\* The budgeter on every retrieval result of up to MaxSections sections.
BudgetRetrieval ==
    /\ pc = "retrieval"
    /\ \E d \in SeqsUpTo(Sections, MaxSections) :
        RetrievalReturns([error |-> FALSE, data |-> d])

BudgetSpec == AwaitingRetrieval /\ [][BudgetRetrieval]_vars

\* Retrieval results the stream transformer is started on: one whose section
\* is included and one whose section is cut off.
StreamSectionLists ==
    { <<Section("p0", <<"a">>, 100)>>, <<Section("p0", <<"a">>, 800)>> }

\* The handler awaiting the completion fetch.
AwaitingFetch ==
    \E d \in StreamSectionLists :
        /\ req = [method |-> "POST", lastPathComponent |-> "proj1",
                  searchProject |-> "",
                  body |-> [json |-> TRUE, hasPrompt |-> TRUE,
                            prompt |-> <<"q">>]]
        /\ pc = "fetch"
        /\ calls = [rateLimit |-> 1, moderation |-> 1, embedding |-> 1,
                    retrieval |-> 1, completion |-> 1]
        /\ rateLimitResult = <<[success |-> TRUE, limit |-> 5, remaining |-> 4]>>
        /\ moderationResponse = <<[results |-> <<[flagged |-> FALSE]>>]>>
        /\ embeddingResult = "vector"
        /\ response = <<>>
        /\ fileSections = d
        /\ numTokens = Budget(d).numTokens
        /\ contextText = Budget(d).contextText
        /\ references = Budget(d).references
        /\ streamState = "none"
        /\ frames = <<>>
        /\ didSendHeader = FALSE
        /\ counter = 0
        /\ received = <<>>
        /\ startOutcome = "notStarted"
        /\ queue = <<>>
        /\ delivered = <<>>
        /\ readPending = FALSE
        /\ cancelled = FALSE

StreamNext ==
    \/ FetchReturns
    \/ StreamFeed
    \/ BodyEnds
    \/ BodyFails
    \/ ConsumerRead
    \/ ConsumerCancel

StreamSpec == AwaitingFetch /\ [][StreamNext]_vars

(* ------------------------------- claims ------------------------------- *)

NoPaidCall ==
    /\ calls.moderation = 0
    /\ calls.embedding = 0
    /\ calls.retrieval = 0
    /\ calls.completion = 0

RateLimiterRefused == rateLimitResult # <<>> /\ ~rateLimitResult[1].success

\* C1: when the rate limiter reports the project as not allowed, the request
\* has ended with a 429 response and no moderation, embedding, retrieval or
\* completion call has been made, in that state and in every later one.
C1_RateLimitedStops ==
    RateLimiterRefused =>
        /\ pc = "responded"
        /\ response # <<>> /\ response[1].status = 429
        /\ NoPaidCall

C1_Witness ==
    /\ RateLimiterRefused
    /\ response # <<>> /\ response[1].status = 429
    /\ calls.rateLimit = 1

SentinelReceived ==
    \E i \in 1..Len(received) :
        received[i].type = "event" /\ received[i].data = "[DONE]"

\* C2: once the upstream has delivered the termination sentinel, the output
\* stream carries the references frame exactly once and before every content
\* frame, also when no content event came before the sentinel.
C2_ReferencesOnceAndFirst ==
    SentinelReceived =>
        /\ Len(frames) >= 1
        /\ frames[1].kind = "references"
        /\ \A i \in 2..Len(frames) : frames[i].kind = "content"

ModerationFlagged ==
    /\ moderationResponse # <<>>
    /\ Len(moderationResponse[1].results) > 0
    /\ moderationResponse[1].results[1].flagged

\* C3: when the moderation verdict is flagged, no embedding, retrieval or
\* completion call is made and no output stream is opened.
C3_FlaggedStops ==
    ModerationFlagged =>
        /\ calls.embedding = 0
        /\ calls.retrieval = 0
        /\ calls.completion = 0
        /\ streamState = "none"
        /\ frames = <<>>

C3_Witness ==
    /\ ModerationFlagged
    /\ pc = "thrown"
    /\ calls.moderation = 1

\* The budgeting loop has run on fileSections.
Budgeted == pc \in {"fetch", "streaming", "ended"}

RECURSIVE SumTokens(_, _)
SumTokens(sections, k) ==
    IF k = 0 THEN 0 ELSE SumTokens(sections, k - 1) + sections[k].token_count

\* The length of the longest prefix of sections whose cumulative token
\* counts all stay strictly below the cutoff.
LongestPrefixBelowCutoff(sections) ==
    CHOOSE k \in 0..Len(sections) :
        /\ \A j \in 1..k : SumTokens(sections, j) < CONTEXT_TOKENS_CUTOFF
        /\ \/ k = Len(sections)
           \/ SumTokens(sections, k + 1) >= CONTEXT_TOKENS_CUTOFF

\* The trimmed contents of the first k sections, each followed by the
\* separator line, in the order of the list.
RECURSIVE RenderSections(_, _)
RenderSections(sections, k) ==
    IF k = 0 THEN <<>>
    ELSE RenderSections(sections, k - 1) \o Trim(sections[k].content)
            \o <<SectionSeparator>>

\* C4: the context holds exactly the sections of the longest prefix of the
\* ranked list whose cumulative token count stays strictly below 800, in the
\* list's order: nothing of the section that reaches the cutoff and nothing
\* of any later section.
C4_LongestPrefixBelowCutoff ==
    Budgeted =>
        contextText =
            RenderSections(fileSections, LongestPrefixBelowCutoff(fileSections))

\* Token counts [500, 400, 100]: only the first section is included.
C4_Witness ==
    /\ pc = "fetch"
    /\ Len(fileSections) = 3
    /\ fileSections[1].token_count = 500
    /\ fileSections[2].token_count = 400
    /\ fileSections[3].token_count = 100
    /\ contextText = Trim(fileSections[1].content) \o <<SectionSeparator>>

\* The paths of the sections included in the context.
IncludedPaths ==
    { fileSections[j].path : j \in 1..LongestPrefixBelowCutoff(fileSections) }

FirstIncluded(path) ==
    CHOOSE j \in 1..LongestPrefixBelowCutoff(fileSections) :
        /\ fileSections[j].path = path
        /\ \A m \in 1..(j - 1) : fileSections[m].path # path

\* C5: the reference list repeats no path, holds the paths of the included
\* sections, and orders them by their first appearance among those sections.
C5_ReferencesDistinctFirstSeen ==
    Budgeted =>
        /\ \A i, j \in 1..Len(references) :
              i # j => references[i] # references[j]
        /\ { references[i] : i \in 1..Len(references) } = IncludedPaths
        /\ \A i, j \in 1..Len(references) :
              i < j => FirstIncluded(references[i]) < FirstIncluded(references[j])

\* Three included sections, the first and the third sharing a path.
C5_Witness ==
    /\ pc = "fetch"
    /\ Len(fileSections) = 3
    /\ LongestPrefixBelowCutoff(fileSections) = 3
    /\ fileSections[1].path = fileSections[3].path
    /\ fileSections[2].path # fileSections[1].path
    /\ references = <<fileSections[1].path, fileSections[2].path>>

\* Every event received so far is a content event.
OnlyContentReceived ==
    \A i \in 1..Len(received) :
        received[i].type = "event" /\ received[i].data = "json"

OnlyNewlines(text) ==
    text # <<>> /\ \A i \in 1..Len(text) : text[i] = "\n"

\* The chunks the artifact filter is said to forward: of the events from the
\* i-th on, with n chunks forwarded before them.
RECURSIVE SaidForwarded(_, _, _)
SaidForwarded(events, i, n) ==
    IF i > Len(events) THEN <<>>
    ELSE IF n < 2 /\ OnlyNewlines(events[i].text)
    THEN SaidForwarded(events, i + 1, n)
    ELSE <<events[i].text>> \o SaidForwarded(events, i + 1, n + 1)

\* The texts of the content frames enqueued, in order.
RECURSIVE ContentTexts(_)
ContentTexts(fs) ==
    IF fs = <<>> THEN <<>>
    ELSE IF Head(fs).kind = "content"
    THEN <<Head(fs).text>> \o ContentTexts(Tail(fs))
    ELSE ContentTexts(Tail(fs))

\* C6: a chunk is suppressed if and only if it consists solely of newline
\* characters and fewer than two chunks have been forwarded; every other
\* chunk is forwarded unchanged, and suppressed chunks are not counted.
C6_SuppressedIffOnlyNewlines ==
    (pc = "streaming" /\ OnlyContentReceived) =>
        ContentTexts(frames) = SaidForwarded(received, 1, 0)

\* C7: once the termination sentinel has been received no further frame is
\* enqueued, whatever the upstream delivers afterwards, and a start() that
\* runs to its end leaves the output stream closed.
C7_NothingAfterSentinel ==
    /\ [][SentinelReceived => frames' = frames]_vars
    /\ []((SentinelReceived /\ startOutcome \in {"returned", "closeThrew"})
            => streamState = "closed")

EmbeddingExhausted ==
    calls.embedding = NumOfAttempts /\ embeddingResult \in {"rejected", "noVector"}

\* C8: the embedding call is attempted at most 10 times in a request; when
\* all 10 attempts have failed the request has ended with a 400 response,
\* with no retrieval or completion call and no output stream.
C8_EmbeddingBounded ==
    /\ calls.embedding <= 10
    /\ EmbeddingExhausted =>
          /\ pc = "responded"
          /\ response # <<>> /\ response[1].status = 400
          /\ calls.retrieval = 0
          /\ calls.completion = 0
          /\ streamState = "none"

\* The tenth attempt was rejected.
C8_Witness ==
    /\ calls.embedding = 10
    /\ embeddingResult = "rejected"
    /\ response # <<>> /\ response[1].status = 400

\* piece occurs in text as a run of consecutive elements.
Contains(text, piece) ==
    \E k \in 0..(Len(text) - Len(piece)) :
        SubSeq(text, k + 1, k + Len(piece)) = piece

\* C9: whenever the completion service is called, the context text holds the
\* content of at least one retrieved section.
C9_NeverZeroContext ==
    calls.completion > 0 =>
        \E i \in 1..Len(fileSections) :
            Contains(contextText,
                     Trim(fileSections[i].content) \o <<SectionSeparator>>)

HasHeader(resp, name, value) ==
    \E h \in resp.headers : h.name = name /\ h.value = value

\* C10: every response produced after the rate-limit check carries the rate
\* limiter's limit and remaining values as response metadata.
C10_RateLimitMetadata ==
    (rateLimitResult # <<>> /\ response # <<>>) =>
        /\ HasHeader(response[1], "X-RateLimit-Limit", rateLimitResult[1].limit)
        /\ HasHeader(response[1], "X-RateLimit-Remaining",
                     rateLimitResult[1].remaining)

\* No project identifier can be resolved: the query parameter when the last
\* path segment is `completions`, otherwise the last path segment.
ProjectUnresolved ==
    \/ req.lastPathComponent = "completions" /\ req.searchProject = ""
    \/ req.lastPathComponent = ""

\* The body carries a prompt of which no character is left by truncation.
PromptEmptyAfterTruncation ==
    /\ req.body.json
    /\ req.body.hasPrompt
    /\ \A i \in 1..Len(req.body.prompt) : i > MAX_PROMPT_LENGTH

\* C11: a POST request without a resolvable project identifier fails with
\* the 400 response `No project found`, one with a project and a prompt that
\* is empty after truncation with the 400 response `No prompt provided`, and
\* in both cases no collaborator is called.
C11_ValidationFailures ==
    (req.method = "POST" /\ pc # "intake") =>
        /\ ProjectUnresolved =>
              /\ response = <<[status |-> 400, body |-> "No project found",
                               headers |-> {}]>>
              /\ calls = NoCalls
        /\ (~ProjectUnresolved /\ PromptEmptyAfterTruncation) =>
              /\ response = <<[status |-> 400, body |-> "No prompt provided",
                               headers |-> {}]>>
              /\ calls = NoCalls

\* The request is valid as far as intake goes.
WellFormedBody == req.body.json /\ req.body.hasPrompt

\* The rpc settled without a section to go on with.
RetrievalFailed ==
    calls.retrieval > 0 /\ pc # "retrieval" /\ calls.completion = 0

\* C12: every pre-stream failure ends the request with one plain-text error
\* response and no output, 429 for the rate-limit rejection and 400 for
\* every other kind, and in no other way.
C12_FailuresAreResponses ==
    /\ RateLimiterRefused =>
          /\ pc = "responded"
          /\ response # <<>> /\ response[1].status = 429
    /\ ( \/ (pc # "intake" /\ req.method = "POST" /\ WellFormedBody
               /\ (ProjectUnresolved \/ PromptEmptyAfterTruncation))
         \/ ModerationFlagged
         \/ embeddingResult \in {"rejected", "noVector"}
         \/ RetrievalFailed ) =>
          /\ pc = "responded"
          /\ response # <<>> /\ response[1].status = 400
          /\ streamState = "none"
          /\ frames = <<>>

IsContentEvent(e) == e.type = "event" /\ e.data = "json"

IsMalformedEvent(e) == e.type = "event" /\ e.data = "malformed"

\* The upstream delivered content events, then the sentinel, and its body
\* ended; the consumer stayed connected.
WellFormedUpstreamEnded ==
    /\ pc = "ended"
    /\ startOutcome # "readThrew"
    /\ ~cancelled
    /\ Len(received) >= 1
    /\ received[Len(received)].type = "event"
    /\ received[Len(received)].data = "[DONE]"
    /\ \A i \in 1..(Len(received) - 1) : IsContentEvent(received[i])

\* The content frames of the chunks that the artifact filter lets through:
\* of the events from the i-th on, with n chunks forwarded before them.
RECURSIVE ForwardedFrames(_, _, _)
ForwardedFrames(events, i, n) ==
    IF i > Len(events) THEN <<>>
    ELSE IF ~IsContentEvent(events[i])
    THEN ForwardedFrames(events, i + 1, n)
    ELSE IF n < 2 /\ (\E k \in 1..Len(events[i].text) : events[i].text[k] = "\n")
    THEN ForwardedFrames(events, i + 1, n)
    ELSE <<[kind |-> "content", refs |-> <<>>, text |-> events[i].text]>>
            \o ForwardedFrames(events, i + 1, n + 1)

\* C13: after well-formed content events, the sentinel and the end of the
\* body, the client gets the references frame and then the forwarded chunks
\* in upstream order, each once, and the stream is closed, not errored.
C13_EndToEndStream ==
    WellFormedUpstreamEnded =>
        /\ frames = <<[kind |-> "references", refs |-> references,
                       text |-> <<>>]>>
                        \o ForwardedFrames(received, 1, 0)
        /\ delivered \o queue = frames
        /\ streamState = "closed"

ParseFailed == \E i \in 1..Len(received) : IsMalformedEvent(received[i])

IsPrefix(p, q) == Len(p) <= Len(q) /\ SubSeq(q, 1, Len(p)) = p

C15_AllFailuresRetried ==
    embeddingResult \in {"rejected", "noVector"} => calls.embedding = 10

\* C16: when the payload of the first upstream event fails to parse, the
\* stream is errored and no frame, the references frame included, has been
\* emitted.
C16_NoFrameOnFirstParseFailure ==
    (Len(received) >= 1 /\ IsMalformedEvent(received[1]) /\ ~cancelled) =>
        /\ streamState = "errored"
        /\ frames = <<>>

\* C17: when the body ends after well-formed events and the token count then
\* fails, the stream is closed, not errored, and every forwarded frame is
\* read or still readable.
C17_AccountingFailureHarmless ==
    ( /\ startOutcome = "tokenizerThrew"
      /\ \E i \in 1..Len(received) : IsContentEvent(received[i])
      /\ ~ParseFailed
      /\ ~cancelled ) =>
        /\ streamState = "closed"
        /\ delivered \o queue = frames

\* C18: after the client cancels the stream, no further upstream chunk is
\* read and no further event is parsed.
C18_CancelStopsUpstream ==
    [][cancelled => (received' = received /\ startOutcome' = startOutcome)]_vars

\* C19: a frame is enqueued only when a consumer read is waiting for it, and
\* the frames enqueued and not yet read never exceed what one pull produces
\* (the references frame and one content frame).
C19_PullDriven ==
    /\ [][frames' # frames => readPending]_vars
    /\ [](Len(queue) <= 2)

\* The first section that reaches the cutoff, or one past the list.
StoppedAt ==
    CHOOSE j \in 1..(Len(fileSections) + 1) :
        /\ \A m \in 1..(j - 1) : SumTokens(fileSections, m) < 800
        /\ j <= Len(fileSections) => SumTokens(fileSections, j) >= 800

\* C20: every reference is the path of a section whose text is in the
\* context, the reference list is empty exactly when the context is, and the
\* section stopped by the cutoff and those after it add neither text nor a
\* reference.
C20_ReferencesMatchContext ==
    Budgeted =>
        /\ \A i \in 1..Len(references) :
              \E j \in 1..(StoppedAt - 1) : fileSections[j].path = references[i]
        /\ (references = <<>>) <=> (contextText = <<>>)
        /\ contextText = RenderSections(fileSections, StoppedAt - 1)
        /\ \A j \in StoppedAt..Len(fileSections) :
              (\A m \in 1..(StoppedAt - 1) :
                    fileSections[m].path # fileSections[j].path)
                => \A i \in 1..Len(references) :
                        references[i] # fileSections[j].path

\* A section is included, the next one reaches the cutoff, and neither its
\* path nor the path of the section after it is referenced.
C20_Witness ==
    /\ pc = "fetch"
    /\ Len(fileSections) = 3
    /\ StoppedAt = 2
    /\ fileSections[2].path # fileSections[1].path
    /\ fileSections[3].path # fileSections[1].path
    /\ references = <<fileSections[1].path>>
    /\ contextText # <<>>

====
